---- MODULE Spec2Model ----
(***************************************************************************)
(* retry(fn, opts) of src/index.ts: an async function is re-run with       *)
(* exponential backoff and an optional per-attempt timeout.                *)
(*                                                                         *)
(* Every variable is a function over the identifiers of the retry calls    *)
(* in progress: a call owns its options, its loop variables, its timers    *)
(* and the computations its factory returned.  The last five variables     *)
(* record what a call did (factory invocations, attempt outcomes, onRetry  *)
(* calls, delays slept, final outcome); the code does not read them.       *)
(***************************************************************************)
EXTENDS Integers, Sequences, FiniteSets

VARIABLES opts, pc, attempt, delay, err, timers, pending,
          calls, results, log, sleeps, outcome

vars == <<opts, pc, attempt, delay, err, timers, pending,
          calls, results, log, sleeps, outcome>>

(* ----------------------------- bounds ---------------------------------- *)
MaxRetries == 3
MaxDelay == 2
TimeoutT == 50
MaxNegRetries == 2

(* ------------------------ optional values ------------------------------ *)
\* A JavaScript value that may be undefined: <<>> is undefined, <<v>> is v.
Undefined == <<>>
Some(v) == <<v>>

(* --------------------------- options ----------------------------------- *)
\* A factor is the rational num/den, so that 0.5 and 1.5 can be passed.
Frac(n, d) == [num |-> n, den |-> d]

DefaultRetries_OffByOne == 3 - 1
DefaultRetries == 3
DefaultDelayMs == 100
DefaultFactor == 2

\* A default of the destructuring pattern applies when the property is undefined.
OrDefault(v, d) == IF v = Undefined THEN d ELSE v[1]

NoOptions ==
  [retries |-> Undefined, delayMs |-> Undefined, factor |-> Undefined,
   onRetry |-> Undefined, timeoutMs |-> Undefined]

\* const {...} = opts || {}
Destructure(o) ==
  LET p == IF o = Undefined THEN NoOptions ELSE o[1]
  IN  [retries   |-> OrDefault(p.retries, DefaultRetries),
       delayMs   |-> OrDefault(p.delayMs, DefaultDelayMs),
       factor    |-> OrDefault(p.factor, Frac(DefaultFactor, 1)),
       onRetry   |-> p.onRetry,
       timeoutMs |-> p.timeoutMs]

Retries_Shared(c) == Destructure(opts[1]).retries
Retries(c) == Destructure(opts[c]).retries
DelayMs(c) == Destructure(opts[c]).delayMs
Factor(c) == Destructure(opts[c]).factor
OnRetry(c) == Destructure(opts[c]).onRetry
TimeoutMs(c) == Destructure(opts[c]).timeoutMs

(* ----------------------- values and errors ----------------------------- *)
\* The n-th computation fulfils with Value(n) or rejects with Rejected(n); the
\* n-th factory invocation may instead throw Thrown(n).  TimedOut(n) is the
\* new Error('timeout') of the n-th attempt's timer.
Value(n) == [kind |-> "value", n |-> n]
Rejected(n) == [kind |-> "rejected", n |-> n]
Thrown(n) == [kind |-> "thrown", n |-> n]
TimedOut(n) == [kind |-> "timeout", n |-> n]
OnRetryError(n) == [kind |-> "onRetryThrew", n |-> n]
RetryFailed == [kind |-> "retry failed", n |-> 0]
None == [kind |-> "none", n |-> 0]

\* A pending setTimeout of the n-th attempt: the timeout timer of line 23 (ms
\* is the timeoutMs option as passed) or the backoff timer of line 20.
TimeoutTimer(n, ms) == [kind |-> "timeout", n |-> n, ms |-> ms]
SleepTimer(n, ms) == [kind |-> "sleep", n |-> n, ms |-> Some(ms)]

(* ------------------------- pure steps ---------------------------------- *)
LoopGuard_FirstAlways(a, r) == a = 0 \/ a <= r
\* while (attempt <= retries)
LoopGuard(a, r) == a <= r

NoTimeout_Always(ms) == TRUE
NoTimeout_Never(ms) == FALSE
\* if (ms == null) return p;
NoTimeout(ms) == ms = Undefined

IsLastAttempt_OffByOne(a, r) == a + 1 = r
IsLastAttempt_Never(a, r) == FALSE
IsLastAttempt_Past(a, r) == a > r
\* if (attempt === retries) throw err;
IsLastAttempt(a, r) == a = r

AttemptNumber_ZeroBased(a) == a
\* onRetry?.(err, attempt + 1): the attempt number handed to onRetry
AttemptNumber(a) == a + 1

Rethrown_Wrapped(e) == [kind |-> "wrapped", n |-> e.n]
\* throw err: the caught value itself is rethrown
Rethrown(e) == e

NextDelay_Unchanged(d, f) == d
\* delay = Math.floor(delay * factor)
NextDelay(d, f) == (d * f.num) \div f.den

NextAttempt_Stuck(a) == a
\* attempt++
NextAttempt(a) == a + 1

(* --------------------------- initial state ----------------------------- *)
Factors == {Frac(0, 1), Frac(1, 2), Frac(1, 1), Frac(3, 2), Frac(2, 1)}

OptionRecords ==
  [retries   : {Some(r) : r \in 0..MaxRetries},
   delayMs   : {Some(d) : d \in 0..MaxDelay},
   factor    : {Some(f) : f \in Factors},
   onRetry   : {Undefined, Some("onRetry")},
   timeoutMs : {Undefined, Some(0), Some(TimeoutT)}]

Options == {Undefined} \cup {Some(o) : o \in OptionRecords}

\* The state of the calls of o (a function from call identifiers to options)
\* when each has run lines 19-26.
Start(o) ==
  /\ opts = o
  /\ pc = [c \in DOMAIN o |-> "loop"]
  /\ attempt = [c \in DOMAIN o |-> 0]
  /\ delay = [c \in DOMAIN o |-> Destructure(o[c]).delayMs]
  /\ err = [c \in DOMAIN o |-> None]
  /\ timers = [c \in DOMAIN o |-> {}]
  /\ pending = [c \in DOMAIN o |-> {}]
  /\ calls = [c \in DOMAIN o |-> 0]
  /\ results = [c \in DOMAIN o |-> <<>>]
  /\ log = [c \in DOMAIN o |-> <<>>]
  /\ sleeps = [c \in DOMAIN o |-> <<>>]
  /\ outcome = [c \in DOMAIN o |-> None]

Init == \E o \in [{1} -> Options] : Start(o)

(* ------------------------------ actions -------------------------------- *)
\* The call ends: return v, or throw e out of the async function.
Finish(c, o) ==
  /\ pc' = [pc EXCEPT ![c] = "done"]
  /\ outcome' = [outcome EXCEPT ![c] = o]

Returned(v) == [kind |-> "returned", val |-> v]
RejectedWith(e) == [kind |-> "rejected", val |-> e]

Awaiting_AnyAttempt(c, n) == pc[c] = "await"
\* The awaited race of attempt n is still undecided.
Awaiting(c, n) == pc[c] = "await" /\ n = calls[c]

\* LoopHead with fn() called before the try block: its throw leaves retry.
LoopHead_FnOutsideTry(c) ==
  /\ pc[c] = "loop"
  /\ IF LoopGuard(attempt[c], Retries(c))
     THEN LET n == calls[c] + 1 IN
          /\ calls' = [calls EXCEPT ![c] = n]
          /\ \E fnThrows \in BOOLEAN :
               IF fnThrows
               THEN /\ Finish(c, RejectedWith(Thrown(n)))
                    /\ results' = [results EXCEPT ![c] = Append(@, Thrown(n))]
                    /\ UNCHANGED <<err, pending, timers>>
               ELSE /\ pc' = [pc EXCEPT ![c] = "await"]
                    /\ pending' = [pending EXCEPT ![c] = @ \cup {n}]
                    /\ timers' = [timers EXCEPT ![c] =
                         IF NoTimeout(TimeoutMs(c)) THEN @
                         ELSE @ \cup {TimeoutTimer(n, TimeoutMs(c))}]
                    /\ UNCHANGED <<err, results, outcome>>
     ELSE /\ Finish(c, RejectedWith(RetryFailed))
          /\ UNCHANGED <<calls, err, results, pending, timers>>
  /\ UNCHANGED <<opts, attempt, delay, log, sleeps>>

\* Lines 27-29 and 39: the loop test, then fn() and withTimeout(), or the
\* throw after the loop.
LoopHead(c) ==
  /\ pc[c] = "loop"
  /\ IF LoopGuard(attempt[c], Retries(c))
     THEN LET n == calls[c] + 1 IN
          /\ calls' = [calls EXCEPT ![c] = n]
          /\ \E fnThrows \in BOOLEAN :
               IF fnThrows
               THEN /\ pc' = [pc EXCEPT ![c] = "catch"]
                    /\ err' = [err EXCEPT ![c] = Thrown(n)]
                    /\ results' = [results EXCEPT ![c] = Append(@, Thrown(n))]
                    /\ UNCHANGED <<pending, timers>>
               ELSE /\ pc' = [pc EXCEPT ![c] = "await"]
                    /\ pending' = [pending EXCEPT ![c] = @ \cup {n}]
                    /\ timers' = [timers EXCEPT ![c] =
                         IF NoTimeout(TimeoutMs(c)) THEN @
                         ELSE @ \cup {TimeoutTimer(n, TimeoutMs(c))}]
                    /\ UNCHANGED <<err, results>>
          /\ UNCHANGED outcome
     ELSE /\ Finish(c, RejectedWith(RetryFailed))
          /\ UNCHANGED <<calls, err, results, pending, timers>>
  /\ UNCHANGED <<opts, attempt, delay, log, sleeps>>

\* The computation of attempt n fulfils.  Line 29 returns its value when the
\* call still awaits that attempt; otherwise nothing listens to it.
Resolve(c, n) ==
  /\ n \in pending[c]
  /\ pending' = [pending EXCEPT ![c] = @ \ {n}]
  /\ IF Awaiting(c, n)
     THEN /\ results' = [results EXCEPT ![c] = Append(@, Value(n))]
          /\ Finish(c, Returned(Value(n)))
     ELSE UNCHANGED <<results, pc, outcome>>
  /\ UNCHANGED <<opts, attempt, delay, err, timers, calls, log, sleeps>>

\* The computation of attempt n rejects: line 30 catches its error.
Reject(c, n) ==
  /\ n \in pending[c]
  /\ pending' = [pending EXCEPT ![c] = @ \ {n}]
  /\ IF Awaiting(c, n)
     THEN /\ results' = [results EXCEPT ![c] = Append(@, Rejected(n))]
          /\ pc' = [pc EXCEPT ![c] = "catch"]
          /\ err' = [err EXCEPT ![c] = Rejected(n)]
     ELSE UNCHANGED <<results, pc, err>>
  /\ UNCHANGED <<opts, attempt, delay, timers, calls, log, sleeps, outcome>>

\* Line 23: the timeout timer of attempt n fires and rejects its promise.
TimeoutFires(c, t) ==
  /\ t \in timers[c]
  /\ t.kind = "timeout"
  /\ timers' = [timers EXCEPT ![c] = @ \ {t}]
  /\ IF Awaiting(c, t.n)
     THEN /\ results' = [results EXCEPT ![c] = Append(@, TimedOut(t.n))]
          /\ pc' = [pc EXCEPT ![c] = "catch"]
          /\ err' = [err EXCEPT ![c] = TimedOut(t.n)]
     ELSE UNCHANGED <<results, pc, err>>
  /\ UNCHANGED <<opts, attempt, delay, pending, calls, log, sleeps, outcome>>

\* Catch with sleep(delay) called before onRetry and awaited after it.
Catch_SleepsFirst(c) ==
  /\ pc[c] = "catch"
  /\ IF IsLastAttempt(attempt[c], Retries(c))
     THEN /\ Finish(c, RejectedWith(Rethrown(err[c])))
          /\ UNCHANGED <<log, sleeps, timers>>
     ELSE /\ log' = [log EXCEPT ![c] =
                IF OnRetry(c) = Undefined THEN @
                ELSE Append(@, <<err[c], AttemptNumber(attempt[c])>>)]
          /\ sleeps' = [sleeps EXCEPT ![c] = Append(@, delay[c])]
          /\ timers' = [timers EXCEPT ![c] =
               @ \cup {SleepTimer(calls[c], delay[c])}]
          /\ \E onRetryThrows \in {b \in BOOLEAN : b => OnRetry(c) # Undefined} :
               IF onRetryThrows
               THEN Finish(c, RejectedWith(OnRetryError(calls[c])))
               ELSE /\ pc' = [pc EXCEPT ![c] = "sleep"]
                    /\ UNCHANGED outcome
  /\ UNCHANGED <<opts, attempt, delay, err, pending, calls, results>>

\* Lines 31-33: rethrow on the last attempt; otherwise onRetry, then sleep.
Catch(c) ==
  /\ pc[c] = "catch"
  /\ IF IsLastAttempt(attempt[c], Retries(c))
     THEN /\ Finish(c, RejectedWith(Rethrown(err[c])))
          /\ UNCHANGED <<log, sleeps, timers>>
     ELSE /\ log' = [log EXCEPT ![c] =
                IF OnRetry(c) = Undefined THEN @
                ELSE Append(@, <<err[c], AttemptNumber(attempt[c])>>)]
          /\ \E onRetryThrows \in {b \in BOOLEAN : b => OnRetry(c) # Undefined} :
               IF onRetryThrows
               THEN /\ Finish(c, RejectedWith(OnRetryError(calls[c])))
                    /\ UNCHANGED <<sleeps, timers>>
               ELSE /\ pc' = [pc EXCEPT ![c] = "sleep"]
                    /\ sleeps' = [sleeps EXCEPT ![c] = Append(@, delay[c])]
                    /\ timers' = [timers EXCEPT ![c] =
                         @ \cup {SleepTimer(calls[c], delay[c])}]
                    /\ UNCHANGED outcome
  /\ UNCHANGED <<opts, attempt, delay, err, pending, calls, results>>

\* Line 33 without its await: the loop goes on while the timer is pending.
SleepFires_NotAwaited(c, t) ==
  /\ pc[c] = "sleep"
  /\ t \in timers[c]
  /\ t.kind = "sleep"
  /\ delay' = [delay EXCEPT ![c] = NextDelay(@, Factor(c))]
  /\ attempt' = [attempt EXCEPT ![c] = NextAttempt(@)]
  /\ pc' = [pc EXCEPT ![c] = "loop"]
  /\ UNCHANGED <<opts, err, timers, pending, calls, results, log, sleeps, outcome>>

\* Lines 33-35: the backoff timer fires; the delay grows and the loop goes on.
SleepFires(c, t) ==
  /\ pc[c] = "sleep"
  /\ t \in timers[c]
  /\ t.kind = "sleep"
  /\ timers' = [timers EXCEPT ![c] = @ \ {t}]
  /\ delay' = [delay EXCEPT ![c] = NextDelay(@, Factor(c))]
  /\ attempt' = [attempt EXCEPT ![c] = NextAttempt(@)]
  /\ pc' = [pc EXCEPT ![c] = "loop"]
  /\ UNCHANGED <<opts, err, pending, calls, results, log, sleeps, outcome>>

(* ------------------------------- state --------------------------------- *)
\* What each variable holds, for every call c:
\*   opts[c]     the opts argument, Undefined when retry(fn) is called without it
\*   pc[c]       "loop" at the loop test, "await" at line 29, "catch" on entering
\*               the catch block, "sleep" at line 33, "done" once ended
\*   attempt[c], delay[c]   the variables of lines 25-26
\*   err[c]      the error the catch block caught
\*   timers[c]   the setTimeout timers not yet fired
\*   pending[c]  the attempts whose computation has not settled
\*   calls[c]    how many times fn was invoked
\*   results[c]  how each attempt ended, in order
\*   log[c]      the argument pairs of the onRetry calls, in order
\*   sleeps[c]   the delays passed to sleep, in order
\*   outcome[c]  the value returned or the error thrown, None before
TypeOK ==
  \A c \in DOMAIN pc :
    /\ pc[c] \in {"loop", "await", "catch", "sleep", "done"}
    /\ attempt[c] \in Nat
    /\ delay[c] \in Nat
    /\ calls[c] \in Nat
    /\ pending[c] \subseteq 1..calls[c]
    /\ \A t \in timers[c] : t.kind \in {"timeout", "sleep"} /\ t.n \in 1..calls[c]
    /\ Len(results[c]) \in {calls[c], calls[c] - 1}
    /\ Len(sleeps[c]) = attempt[c] + (IF pc[c] = "sleep" THEN 1 ELSE 0)
    /\ (outcome[c] = None) = (pc[c] # "done")

Next ==
  \/ \E c \in DOMAIN pc : LoopHead(c)
  \/ \E c \in DOMAIN pc : \E n \in pending[c] : Resolve(c, n)
  \/ \E c \in DOMAIN pc : \E n \in pending[c] : Reject(c, n)
  \/ \E c \in DOMAIN pc : \E t \in timers[c] : TimeoutFires(c, t)
  \/ \E c \in DOMAIN pc : Catch(c)
  \/ \E c \in DOMAIN pc : \E t \in timers[c] : SleepFires(c, t)

Spec == Init /\ [][Next]_vars

(* ------------------------- what a call did ----------------------------- *)
Call == DOMAIN pc

Done(c) == pc[c] = "done"

Min(a, b) == IF a <= b THEN a ELSE b

IsFailure(r) == r.kind \in {"rejected", "thrown", "timeout"}

\* The number of attempts of c that failed so far.
Failures(c) == Cardinality({i \in 1..Len(results[c]) : IsFailure(results[c][i])})

AllFailed(c) == \A i \in 1..Len(results[c]) : IsFailure(results[c][i])

AllTimedOut(c) == \A i \in 1..Len(results[c]) : results[c][i] = TimedOut(i)

\* c ended because onRetry threw.
OnRetryThrew(c) == outcome[c].kind = "rejected" /\ outcome[c].val.kind = "onRetryThrew"

HasOnRetry(c) == OnRetry(c) # Undefined

TimeoutTimers(c) == {t \in timers[c] : t.kind = "timeout"}

PositiveTimeout(c) == TimeoutMs(c) # Undefined /\ TimeoutMs(c)[1] > 0

\* n ^ k for k >= 0
RECURSIVE Pow(_, _)
Pow(n, k) == IF k = 0 THEN 1 ELSE n * Pow(n, k - 1)

\* floor(d0 * f^(i-1))
ClosedFormDelay(d0, f, i) == (d0 * Pow(f.num, i - 1)) \div Pow(f.den, i - 1)

(* ------------------------------ claims --------------------------------- *)

\* C1: when every attempt fails and onRetry returns normally, a call with
\* retries = r >= 0 ends after exactly r + 1 factory invocations, rejecting with
\* the error of attempt r + 1; with r = 0 onRetry is never called.
C1_AlwaysFailing ==
  \A c \in Call :
    /\ (Done(c) /\ AllFailed(c) /\ ~OnRetryThrew(c)) =>
         /\ calls[c] = Retries(c) + 1
         /\ Len(results[c]) = Retries(c) + 1
         /\ outcome[c] = RejectedWith(results[c][Retries(c) + 1])
    /\ Retries(c) = 0 => log[c] = <<>>

C1_Witness ==
  \E c \in Call :
    /\ Done(c) /\ AllFailed(c) /\ ~OnRetryThrew(c)
    /\ HasOnRetry(c)
    /\ Retries(c) = 2
    /\ calls[c] = 3

\* C2: a call that returns after k failed attempts returns the value of attempt
\* k + 1, has invoked the factory exactly k + 1 times with k <= retries, and has
\* called onRetry exactly k times, the i-th call with the error of attempt i and
\* the number i.
C2_FailsThenSucceeds ==
  \A c \in Call :
    (Done(c) /\ outcome[c].kind = "returned") =>
      LET k == Failures(c) IN
      /\ k <= Retries(c)
      /\ calls[c] = k + 1
      /\ Len(results[c]) = k + 1
      /\ \A i \in 1..k : IsFailure(results[c][i])
      /\ results[c][k + 1] = Value(k + 1)
      /\ outcome[c] = Returned(Value(k + 1))
      /\ HasOnRetry(c) => log[c] = [i \in 1..k |-> <<results[c][i], i>>]

C2_Witness ==
  \E c \in Call :
    /\ Done(c) /\ outcome[c] = Returned(Value(3))
    /\ Retries(c) = 2
    /\ Len(log[c]) = 2

\* C3 (as stated): a finished call returned the success value of an attempt or
\* rejected with the unmodified error of the final permitted attempt; nothing
\* else.
C3_TwoOutcomes ==
  \A c \in Call :
    Done(c) =>
      \/ /\ outcome[c].kind = "returned"
         /\ outcome[c].val = results[c][Len(results[c])]
         /\ outcome[c].val.kind = "value"
      \/ /\ outcome[c].kind = "rejected"
         /\ calls[c] = Retries(c) + 1
         /\ Len(results[c]) = Retries(c) + 1
         /\ outcome[c].val = results[c][Retries(c) + 1]
         /\ IsFailure(outcome[c].val)

\* C3 (amended): a finished call with retries >= 0 returned the success value
\* of an attempt, or rejected with the unmodified error of the final permitted
\* attempt, or rejected with the error onRetry threw after a failed attempt that
\* was not the final one.
C3_ThreeOutcomes ==
  \A c \in Call :
    Done(c) =>
      \/ /\ outcome[c].kind = "returned"
         /\ outcome[c].val = results[c][Len(results[c])]
         /\ outcome[c].val.kind = "value"
      \/ /\ outcome[c].kind = "rejected"
         /\ calls[c] = Retries(c) + 1
         /\ Len(results[c]) = Retries(c) + 1
         /\ outcome[c].val = results[c][Retries(c) + 1]
         /\ IsFailure(outcome[c].val)
      \/ /\ outcome[c] = RejectedWith(OnRetryError(calls[c]))
         /\ HasOnRetry(c)
         /\ calls[c] <= Retries(c)
         /\ Len(results[c]) = calls[c]
         /\ IsFailure(results[c][calls[c]])
         /\ log[c][Len(log[c])] = <<results[c][calls[c]], calls[c]>>

C3_Witness ==
  \E c \in Call :
    /\ Done(c)
    /\ outcome[c] = RejectedWith(OnRetryError(2))
    /\ Retries(c) = 2

\* C4: a call never invokes the factory more than retries + 1 times.
C4_AttemptsBounded ==
  \A c \in Call : calls[c] <= Retries(c) + 1

C4_Witness ==
  \E c \in Call :
    /\ Retries(c) = 2
    /\ calls[c] = 3
    /\ pc[c] = "await"

\* C5: once a failure has been handled, onRetry has been called exactly
\* min(failures, retries) times, each call for a failed attempt that was not the
\* final permitted one; so it is never called for the final attempt's failure
\* nor after a success.
C5_OnRetryCount ==
  \A c \in Call :
    HasOnRetry(c) =>
      /\ pc[c] # "catch" => Len(log[c]) = Min(Failures(c), Retries(c))
      /\ \A i \in 1..Len(log[c]) :
           /\ i <= Retries(c)
           /\ log[c][i] = <<results[c][i], i>>
           /\ IsFailure(results[c][i])

C5_Witness ==
  \E c \in Call :
    /\ HasOnRetry(c)
    /\ Done(c)
    /\ Retries(c) = 2
    /\ Failures(c) = 3
    /\ Len(log[c]) = 2

\* C6 (as stated): the i-th delay slept is floor(d0 * f^(i-1)), for every
\* initial delay d0 >= 0 and every factor f, integer or not.
C6_ClosedForm ==
  \A c \in Call :
    \A i \in 1..Len(sleeps[c]) :
      sleeps[c][i] = ClosedFormDelay(DelayMs(c), Factor(c), i)

\* C6 (amended): the first delay slept is d0 and each later one is
\* floor(f * the delay before it), one delay per retry; for an integer factor f
\* that is d0 * f^(i-1).
C6_IteratedFloor ==
  \A c \in Call :
    /\ Len(sleeps[c]) <= Retries(c)
    /\ \A i \in 1..Len(sleeps[c]) :
         /\ i = 1 => sleeps[c][i] = DelayMs(c)
         /\ i > 1 => sleeps[c][i] =
              (sleeps[c][i - 1] * Factor(c).num) \div Factor(c).den
         /\ Factor(c).den = 1 =>
              sleeps[c][i] = DelayMs(c) * Pow(Factor(c).num, i - 1)
    /\ pc[c] = "sleep" => delay[c] = sleeps[c][Len(sleeps[c])]

C6_Witness ==
  \E c \in Call :
    /\ Factor(c) = Frac(3, 2)
    /\ sleeps[c] = <<2, 3, 4>>

C8_ZeroOrMissingDisables ==
  \A c \in Call :
    (TimeoutMs(c) = Undefined \/ TimeoutMs(c) = Some(0)) =>
      /\ TimeoutTimers(c) = {}
      /\ \A i \in 1..Len(results[c]) : results[c][i].kind # "timeout"

\* C8 (amended): with the timeout option missing, no timeout timer is
\* scheduled, no attempt fails with the timeout error and every attempt's
\* outcome is that of its own computation (or of the factory's throw); a timeout
\* of zero is a timeout like any other, its timer armed for every attempt.
C8_MissingDisables ==
  \A c \in Call :
    /\ TimeoutMs(c) = Undefined =>
         /\ TimeoutTimers(c) = {}
         /\ \A i \in 1..Len(results[c]) :
              results[c][i] \in {Value(i), Rejected(i), Thrown(i)}
         /\ \A i \in 1..Len(results[c]) : i \notin pending[c]
    /\ (TimeoutMs(c) = Some(0) /\ pc[c] = "await") =>
         TimeoutTimer(calls[c], Some(0)) \in timers[c]

C8_Witness ==
  \E c \in Call :
    /\ TimeoutMs(c) = Undefined
    /\ Done(c)
    /\ Len(results[c]) = 3
    /\ results[c][2] = Rejected(2)

\* C9: a timeout timer is pending only while its race is undecided, and a
\* finished call has no pending timer.
C9_TimersCleared ==
  \A c \in Call :
    /\ \A t \in TimeoutTimers(c) : Awaiting(c, t.n)
    /\ Done(c) => timers[c] = {}

(* --------------------- two calls, one with defaults -------------------- *)
\* The options written out: {retries: 3, delayMs: 100, factor: 2}, no onRetry
\* and no timeoutMs.  An object that names the delay initialDelay instead has
\* no delayMs property.
WrittenOut ==
  {[NoOptions EXCEPT !.retries = Some(3), !.delayMs = d, !.factor = Some(Frac(2, 1))] :
     d \in {Some(100), Undefined}}

\* Call 1 is given no options (or an empty object), call 2 the options written
\* out.
InitDefaults ==
  \E o1 \in {Undefined, Some(NoOptions)} :
    \E o2 \in WrittenOut :
      Start(<<o1, Some(o2)>>)

\* Neither call has a timeoutMs, so that line 22 returns p and no timeout timer
\* exists: the steps of these calls are the steps of Next but TimeoutFires.
NextDefaults ==
  \/ \E c \in DOMAIN pc : LoopHead(c)
  \/ \E c \in DOMAIN pc : \E n \in pending[c] : Resolve(c, n)
  \/ \E c \in DOMAIN pc : \E n \in pending[c] : Reject(c, n)
  \/ \E c \in DOMAIN pc : Catch(c)
  \/ \E c \in DOMAIN pc : \E t \in timers[c] : SleepFires(c, t)

SpecDefaults == InitDefaults /\ [][NextDefaults]_vars

\* The attempts both calls have made had the same outcomes.
SameOperation(a, b) ==
  \A i \in 1..Min(Len(results[a]), Len(results[b])) :
    results[a][i] = results[b][i]

IsPrefix(s, t) == Len(s) <= Len(t) /\ \A i \in 1..Len(s) : s[i] = t[i]

\* C10: a call without options and a call with {retries: 3, delayMs: 100,
\* factor: 2} whose attempts have the same outcomes are in the same state at the
\* same place, and when both have ended they made the same number of attempts,
\* slept the same delays, a prefix of 100, 200, 400, and ended the same way;
\* neither schedules a timeout timer or calls onRetry.
C10_DefaultsAgree ==
  /\ (results[1] = results[2] /\ pc[1] = pc[2]) =>
       /\ attempt[1] = attempt[2]
       /\ delay[1] = delay[2]
       /\ calls[1] = calls[2]
       /\ sleeps[1] = sleeps[2]
       /\ outcome[1] = outcome[2]
  /\ (Done(1) /\ Done(2) /\ SameOperation(1, 2)) =>
       /\ calls[1] = calls[2]
       /\ results[1] = results[2]
       /\ sleeps[1] = sleeps[2]
       /\ outcome[1] = outcome[2]
  /\ \A c \in Call :
       /\ IsPrefix(sleeps[c], <<100, 200, 400>>)
       /\ calls[c] <= 4
       /\ TimeoutTimers(c) = {}
       /\ log[c] = <<>>

C10_Witness ==
  /\ opts[1] = Undefined
  /\ opts[2] # Undefined
  /\ Done(1) /\ Done(2)
  /\ AllFailed(1) /\ SameOperation(1, 2)
  /\ calls[1] = 4
  /\ sleeps[1] = <<100, 200, 400>>

\* What the retry loop of c holds, apart from its timers and computations.
Loop(c) == <<pc[c], attempt[c], delay[c], err[c], calls[c], results[c],
             log[c], sleeps[c], outcome[c]>>

\* C11: with a timeout configured, the first of {computation, timeout timer}
\* of the awaited attempt to settle decides that attempt, and a computation or
\* a timeout timer that settles when its attempt is already decided changes
\* nothing of the call but its own disappearance; outcomes once recorded stay.
C11_FirstSettledDecides ==
  [][\A c \in DOMAIN pc :
       /\ IsPrefix(results[c], results'[c])
       /\ \A n \in pending[c] \ pending'[c] :
            IF pc[c] = "await" /\ n = calls[c]
            THEN /\ results'[c] \in {Append(results[c], Value(n)),
                                     Append(results[c], Rejected(n))}
                 /\ timers'[c] = timers[c]
            ELSE /\ Loop(c)' = Loop(c)
                 /\ timers'[c] = timers[c]
       /\ \A t \in timers[c] \ timers'[c] :
            t.kind = "timeout" =>
              IF pc[c] = "await" /\ t.n = calls[c]
              THEN /\ results'[c] = Append(results[c], TimedOut(t.n))
                   /\ pc'[c] = "catch"
                   /\ err'[c] = TimedOut(t.n)
                   /\ pending'[c] = pending[c]
                   /\ <<attempt[c], delay[c], log[c], outcome[c]>>'
                        = <<attempt[c], delay[c], log[c], outcome[c]>>
              ELSE /\ Loop(c)' = Loop(c)
                   /\ pending'[c] = pending[c]
  ]_vars

\* Attempt 1 timed out, its computation settled afterwards, and the call is in
\* its second attempt.
C11_Witness ==
  \E c \in Call :
    /\ results[c] = <<TimedOut(1)>>
    /\ 1 \notin pending[c]
    /\ pc[c] = "await"
    /\ calls[c] = 2
    /\ attempt[c] = 1
    /\ HasOnRetry(c) /\ log[c] = <<<<TimedOut(1), 1>>>>

SleepTimers(c) == {t \in timers[c] : t.kind = "sleep"}

\* C12: when onRetry throws, the call has ended, rejected with onRetry's
\* error; the throw came after a failed attempt that was not the final one, no
\* backoff sleep was started for that failure, and the factory and onRetry were
\* not invoked again.
C12_OnRetryThrowAborts ==
  \A c \in Call :
    OnRetryThrew(c) =>
      /\ Done(c)
      /\ HasOnRetry(c)
      /\ outcome[c] = RejectedWith(OnRetryError(calls[c]))
      /\ calls[c] <= Retries(c)
      /\ Len(results[c]) = calls[c]
      /\ IsFailure(results[c][calls[c]])
      /\ Len(log[c]) = calls[c]
      /\ log[c][calls[c]] = <<results[c][calls[c]], calls[c]>>
      /\ Len(sleeps[c]) = calls[c] - 1
      /\ SleepTimers(c) = {}

C12_Witness ==
  \E c \in Call :
    /\ OnRetryThrew(c)
    /\ Retries(c) = 3
    /\ calls[c] = 2
    /\ Len(sleeps[c]) = 1
    /\ Len(log[c]) = 2

\* C13: in every step of a call, onRetry is called only for a failure just
\* caught and with no backoff timer pending; a backoff timer is started only
\* in the step that called onRetry (if given), for the current delay, leaving
\* delay and attempt as they are; delay is multiplied and attempt incremented
\* only in the step in which that timer fires; and the factory is invoked only
\* at the loop test, with no backoff timer pending.
C13_CycleOrder ==
  [][\A c \in DOMAIN pc :
       /\ log'[c] # log[c] =>
            /\ pc[c] = "catch"
            /\ IsFailure(err[c])
            /\ results[c][calls[c]] = err[c]
            /\ SleepTimers(c) = {}
            /\ log'[c] = Append(log[c], <<err[c], attempt[c] + 1>>)
       /\ \A t \in SleepTimers(c)' \ SleepTimers(c) :
            /\ pc[c] = "catch"
            /\ pc'[c] = "sleep"
            /\ SleepTimers(c) = {}
            /\ t.ms = Some(delay[c])
            /\ sleeps'[c] = Append(sleeps[c], delay[c])
            /\ HasOnRetry(c) => Len(log'[c]) = Len(log[c]) + 1
            /\ delay'[c] = delay[c]
            /\ attempt'[c] = attempt[c]
            /\ calls'[c] = calls[c]
       /\ (attempt'[c] # attempt[c] \/ delay'[c] # delay[c]) =>
            /\ pc[c] = "sleep"
            /\ SleepTimers(c) # {}
            /\ SleepTimers(c)' = {}
            /\ attempt'[c] = attempt[c] + 1
            /\ delay'[c] = (delay[c] * Factor(c).num) \div Factor(c).den
            /\ calls'[c] = calls[c]
            /\ pc'[c] = "loop"
       /\ calls'[c] # calls[c] =>
            /\ pc[c] = "loop"
            /\ SleepTimers(c) = {}
            /\ Len(sleeps[c]) = attempt[c]
            /\ calls[c] = attempt[c]
            /\ calls'[c] = calls[c] + 1
  ]_vars

\* One whole cycle: attempt 1 failed, onRetry was called, the delay 1 was
\* slept and doubled, and attempt 2 is under way.
C13_Witness ==
  \E c \in Call :
    /\ pc[c] = "await"
    /\ calls[c] = 2
    /\ attempt[c] = 1
    /\ results[c] = <<Rejected(1)>>
    /\ log[c] = <<<<Rejected(1), 1>>>>
    /\ sleeps[c] = <<1>>
    /\ delay[c] = 2
    /\ SleepTimers(c) = {}

(* ------------------------- concurrent calls ---------------------------- *)
PairOptions ==
  {Some([retries |-> Some(r), delayMs |-> Some(1), factor |-> Some(Frac(2, 1)),
         onRetry |-> Some("onRetry"), timeoutMs |-> t]) :
     r \in 0..1, t \in {Undefined, Some(TimeoutT)}}

\* One call alone, or two calls whose steps interleave.
InitPair == \E o \in [{1} -> PairOptions] \cup [{1, 2} -> PairOptions] : Start(o)

SpecPair == InitPair /\ [][Next]_vars

\* The options of c as c itself destructured them.
Own(c) == Destructure(opts[c])

\* The delay after k multiplications: d, floor(d * f), ...
RECURSIVE DelayAfter(_, _, _)
DelayAfter(d, f, k) ==
  IF k = 0 THEN d ELSE (DelayAfter(d, f, k - 1) * f.num) \div f.den

\* The state of c is the one its own options and the outcomes of its own
\* attempts lead to.
OwnState(c) ==
  LET o == Own(c)
      n == Len(results[c])
      threw == outcome[c] = RejectedWith(OnRetryError(calls[c]))
  IN  /\ attempt[c] = Len(sleeps[c]) - (IF pc[c] = "sleep" THEN 1 ELSE 0)
      /\ delay[c] = DelayAfter(o.delayMs, o.factor, attempt[c])
      /\ calls[c] = attempt[c] + (IF pc[c] = "loop" THEN 0 ELSE 1)
      /\ n = calls[c] - (IF pc[c] = "await" THEN 1 ELSE 0)
      /\ \A i \in 1..n :
           /\ results[c][i] \in {Value(i), Rejected(i), Thrown(i), TimedOut(i)}
           /\ results[c][i] = TimedOut(i) => o.timeoutMs # Undefined
           /\ results[c][i] = Value(i) => i = n /\ pc[c] = "done"
      /\ \A i \in 1..Len(sleeps[c]) :
           sleeps[c][i] = DelayAfter(o.delayMs, o.factor, i - 1)
      /\ log[c] = IF o.onRetry = Undefined THEN <<>>
                  ELSE [i \in 1..(Len(sleeps[c]) + (IF threw THEN 1 ELSE 0)) |->
                          <<results[c][i], i>>]
      /\ pc[c] = "catch" => err[c] = results[c][n]
      /\ IF pc[c] = "done"
         THEN \/ outcome[c] = Returned(results[c][n]) /\ results[c][n] = Value(n)
              \/ /\ outcome[c] = RejectedWith(results[c][n])
                 /\ n = o.retries + 1
                 /\ IsFailure(results[c][n])
              \/ threw /\ n <= o.retries /\ IsFailure(results[c][n])
         ELSE outcome[c] = None /\ calls[c] <= o.retries + 1
      /\ pending[c] \subseteq 1..calls[c]
      /\ \A t \in timers[c] :
           \/ t \in {TimeoutTimer(i, o.timeoutMs) : i \in 1..calls[c]}
                /\ o.timeoutMs # Undefined
           \/ t = SleepTimer(calls[c], sleeps[c][Len(sleeps[c])]) /\ pc[c] = "sleep"

Whole(c) == <<opts[c], Loop(c), timers[c], pending[c]>>

\* C14: whether a call runs alone or interleaved with another, its state is
\* the one its own options and its own attempts' outcomes lead to, and every
\* step changes the counters, timers, computations, onRetry calls and outcome
\* of one call only.
C14_CallsIndependent ==
  /\ [](\A c \in DOMAIN pc : OwnState(c))
  /\ [][\E c \in DOMAIN pc : \A d \in DOMAIN pc \ {c} : Whole(d)' = Whole(d)]_vars

\* Two calls with different options, both ended, one after a retry and one
\* without, their steps interleaved.
C14_Witness ==
  /\ DOMAIN pc = {1, 2}
  /\ Own(1).retries = 0 /\ Own(2).retries = 1
  /\ Own(1).timeoutMs # Own(2).timeoutMs
  /\ Done(1) /\ Done(2)
  /\ outcome[1] = RejectedWith(TimedOut(1))
  /\ outcome[2] = RejectedWith(Rejected(2))
  /\ sleeps[2] = <<1>>

\* C15: with retries >= 0 the loop test always holds when it is made, so the
\* throw after the loop is never reached and no call rejects with 'retry
\* failed': a call ends by returning a value or by a throw from the catch
\* block, the rethrow happening exactly when attempt equals retries.
C15_FallThroughUnreachable ==
  \A c \in Call :
    Retries(c) >= 0 =>
      /\ pc[c] = "loop" => attempt[c] <= Retries(c)
      /\ outcome[c] # RejectedWith(RetryFailed)
      /\ Done(c) =>
           \/ outcome[c].kind = "returned"
           \/ OnRetryThrew(c)
           \/ outcome[c] = RejectedWith(err[c]) /\ attempt[c] = Retries(c)

\* The loop test made with attempt = retries, after retries failures.
C15_Witness ==
  \E c \in Call :
    /\ Retries(c) = 3
    /\ pc[c] = "loop"
    /\ attempt[c] = 3
    /\ Failures(c) = 3

(* ------------------------------ progress ------------------------------- *)
\* One call; the delay and the factor play no part in whether it ends.
FairOptions ==
  {Some([retries |-> Some(r), delayMs |-> Some(1), factor |-> Some(Frac(2, 1)),
         onRetry |-> h, timeoutMs |-> t]) :
     r \in 0..MaxRetries,
     h \in {Undefined, Some("onRetry")},
     t \in {Undefined, Some(0), Some(TimeoutT)}}

InitFair == \E o \in [{1} -> FairOptions] : Start(o)

\* The event loop runs the call's own continuations (the loop test, the catch
\* block) and fires every timer that is due; nothing makes the computation fn
\* returned settle.
Fairness ==
  /\ WF_vars(LoopHead(1))
  /\ WF_vars(Catch(1))
  /\ WF_vars(\E t \in timers[1] : TimeoutFires(1, t))
  /\ WF_vars(\E t \in timers[1] : SleepFires(1, t))

SpecFair == InitFair /\ [][Next]_vars /\ Fairness

\* C16: a call with a positive timeout eventually returns or rejects, whatever
\* its computations do, timers firing when due.
C16_EventuallyEnds ==
  \A c \in {1} : PositiveTimeout(c) => <>Done(c)

\* The call ended although none of its computations ever settled.
C16_Witness ==
  \E c \in Call :
    /\ PositiveTimeout(c)
    /\ Retries(c) = 2
    /\ Done(c)
    /\ pending[c] = {1, 2, 3}
    /\ AllTimedOut(c)

(* ------------------------ retries not validated ------------------------ *)
\* retry checks none of its options: a negative retries is taken as it is.
UnvalidatedOptions ==
  {Some([retries |-> Some(r), delayMs |-> Some(1), factor |-> Some(Frac(2, 1)),
         onRetry |-> h, timeoutMs |-> t]) :
     r \in (0 - MaxNegRetries)..1,
     h \in {Undefined, Some("onRetry")},
     t \in {Undefined, Some(TimeoutT)}}

InitUnvalidated == \E o \in [{1} -> UnvalidatedOptions] : Start(o)

SpecUnvalidated == InitUnvalidated /\ [][Next]_vars

HandledAsFailure(c, i, e) ==
  /\ IsFailure(e)
  /\ i <= calls[c]
  /\ (i = Len(results[c]) /\ pc[c] = "catch") => err[c] = e
  /\ (i < Len(results[c]) \/ pc[c] # "catch") =>
       IF i <= Retries(c)
       THEN /\ HasOnRetry(c) => Len(log[c]) >= i /\ log[c][i] = <<e, i>>
            /\ \/ OnRetryThrew(c) /\ calls[c] = i
               \/ Len(sleeps[c]) >= i
       ELSE /\ Done(c)
            /\ outcome[c] = RejectedWith(e)
            /\ Len(log[c]) <= Retries(c)

\* C18: an attempt whose factory invocation threw is handled as a failure in
\* the very way an attempt whose computation rejected is.
C18_ThrowLikeRejection ==
  \A c \in Call :
    \A i \in 1..Len(results[c]) :
      \A e \in {Thrown(i), Rejected(i)} :
        results[c][i] = e => HandledAsFailure(c, i, e)

C18_Witness ==
  \E c \in Call :
    /\ Retries(c) = 1
    /\ results[c] = <<Thrown(1), Thrown(2)>>
    /\ log[c] = <<<<Thrown(1), 1>>>>
    /\ Len(sleeps[c]) = 1
    /\ Done(c)
    /\ outcome[c] = RejectedWith(Thrown(2))

\* C19: without a timeout, the only computation that can be pending is that
\* of the attempt being awaited, and every earlier attempt has settled with a
\* failure (or its factory invocation threw) before the factory was invoked
\* again.
C19_OnePendingComputation ==
  \A c \in Call :
    TimeoutMs(c) = Undefined =>
      /\ Cardinality(pending[c]) <= 1
      /\ pending[c] # {} => pending[c] = {calls[c]} /\ pc[c] = "await"
      /\ pc[c] = "await" => pending[c] = {calls[c]}
      /\ \A i \in 1..(calls[c] - 1) :
           /\ i \notin pending[c]
           /\ results[c][i] \in {Rejected(i), Thrown(i)}

C19_Witness ==
  \E c \in Call :
    /\ TimeoutMs(c) = Undefined
    /\ calls[c] = 3
    /\ pending[c] = {3}
    /\ results[c] = <<Rejected(1), Rejected(2)>>

====
